---- MODULE Spec2Model ----
(***************************************************************************)
(* Rate limit plugin of elysia-plugins (src/example/index.ts, lines        *)
(* 19-117) together with the part of the logger plugin it calls (lines     *)
(* 148-243).  One plugin instance serves NumReq requests.  A request is    *)
(* handled by the async onRequest hook: the synchronous prologue (key      *)
(* derivation, call of skip) runs when the request arrives, the hook then  *)
(* suspends in `await skip(...)`, and the rest of the hook (lines 83-116)  *)
(* runs to completion when the awaited value settles: JavaScript runs one  *)
(* task at a time, so the code between two awaits is one atomic step.      *)
(* Time is in milliseconds, as Date.now() gives it.                        *)
(***************************************************************************)
EXTENDS Integers, Sequences, FiniteSets, TLC

VARIABLES
    options,         \* the destructured options of rateLimitPlugin (lines 67-73)
    now,             \* the last reading of the clock
    cache,           \* DefaultRateLimitContext.cache: entries, least recently used first
    otherCache,      \* the cache of the context of a second call of rateLimitPlugin
    req,             \* per request: position in the hook, its locals and its response
    hist,            \* history: the requests that reached line 83, in that order
    console,         \* history: what Logger.log printed, in order
    fileWriteQueue,  \* Logger.fileWriteQueue: the pending file writes
    settled,         \* history: the file writes that settled, and how
    flush            \* the promise of Logger.flush(), and the writes it waits for

vars == <<options, now, cache, otherCache, req, hist, console, fileWriteQueue, settled, flush>>

---------------------------------------------------------------------------
(* Bounds of the model *)

\* number of lines one behaviour of the logger prints
MaxLog == 3

\* number of requests one behaviour handles
NumReq == 4

\* capacity of the LRU cache: the constructor's maxEntries parameter (line 39),
\* which the plugin leaves at its default of 10000; scaled down so that the
\* cache fills up
maxEntries == 2


\* number of requests suspended in the await at the same time
MaxInFlight == 2

\* number of requests whose skip predicate returns true or fails
MaxBypass == 1

Req == 1..NumReq

---------------------------------------------------------------------------
(* Numbers and strings *)

\* ttl of the LRU cache: 1 * 3600 * 1000
ttl == 3600000

DigitChar(d) ==
    CASE d = 0 -> "0" [] d = 1 -> "1" [] d = 2 -> "2" [] d = 3 -> "3"
      [] d = 4 -> "4" [] d = 5 -> "5" [] d = 6 -> "6" [] d = 7 -> "7"
      [] d = 8 -> "8" [] d = 9 -> "9"

RECURSIVE Digits(_)
Digits(n) == IF n < 10 THEN <<DigitChar(n)>>
             ELSE Digits(n \div 10) \o <<DigitChar(n % 10)>>

\* Number.prototype.toString() of an integer: a string is a sequence of characters
toString(n) == IF n < 0 THEN <<"-">> \o Digits(0 - n) ELSE Digits(n)

\* Math.max dropped: the second argument as it is
SecondArgument(a, b) == b

\* Math.max(a, b)
Max(a, b) == IF a >= b THEN a ELSE b

\* Math.floor in place of Math.ceil
FloorSeconds(ms) == ms \div 1000

\* Math.ceil(ms / 1000)
CeilSeconds(ms) == 0 - ((0 - ms) \div 1000)

---------------------------------------------------------------------------
(* Key derivation *)

\* key.trim().toLowerCase() of a header name
TrimLower(name) ==
    CASE name = "X-Real-IP" -> "x-real-ip"
      [] name = " forwarded " -> "forwarded"
      [] name = "X-Forwarded-For" -> "x-forwarded-for"
      [] OTHER -> name

\* the header names the default key generator looks for (line 60)
KeyHeaders == {"x-forwareded-for", "x-real-ip", "forwarded"}

\* request.headers.entries() is a sequence of <<name, value>> pairs
IsKeyHeader(e) == TrimLower(e[1]) \in KeyHeaders

defaultKeyGenerator(request) ==
    LET found == SelectSeq(request, IsKeyHeader)
        values == [i \in 1..Len(found) |-> found[i][2]]
    IN  IF Len(values) = 0 THEN "unknown" ELSE values[1]

\* the keyGenerator option is left at its default (line 70)
keyGenerator(request) == defaultKeyGenerator(request)

---------------------------------------------------------------------------
(* The LRU cache behind DefaultRateLimitContext *)

NoValue == [count |-> 0, reset |-> 0]

IndexOf(c, k) ==
    IF \E i \in 1..Len(c) : c[i].key = k
    THEN CHOOSE i \in 1..Len(c) : c[i].key = k
    ELSE 0

Has(c, k) == IndexOf(c, k) # 0

Without(c, i) == [j \in 1..(Len(c) - 1) |-> IF j < i THEN c[j] ELSE c[j + 1]]

\* an entry is stale once it is older than the ttl
IsStale(e, t) == t - e.start > ttl

\* entry i, now e, keeps its place: recency is not refreshed
TouchInPlace(c, i, e) == [c EXCEPT ![i] = e]

\* entry i, now e, becomes the most recently used entry
Touch(c, i, e) == Append(Without(c, i), e)

\* LRUCache.get: a stale entry is deleted and undefined is returned; a hit
\* becomes the most recently used entry and keeps its age
CacheGet(c, k, t) ==
    LET i == IndexOf(c, k) IN
    IF i = 0 THEN [found |-> FALSE, value |-> NoValue, cache |-> c]
    ELSE IF IsStale(c[i], t)
         THEN [found |-> FALSE, value |-> NoValue, cache |-> Without(c, i)]
         ELSE [found |-> TRUE, value |-> c[i].value,
               cache |-> Touch(c, i, c[i])]

\* a set that does not overwrite the entry of a key the cache holds
CacheSetIfAbsent(c, k, v, t) ==
    IF IndexOf(c, k) # 0 THEN c
    ELSE IF Len(c) >= maxEntries
         THEN Append(Tail(c), [key |-> k, value |-> v, start |-> t])
         ELSE Append(c, [key |-> k, value |-> v, start |-> t])

\* a set that evicts nothing
CacheSetUnbounded(c, k, v, t) ==
    LET i == IndexOf(c, k)
        e == [key |-> k, value |-> v, start |-> t]
    IN  IF i # 0 THEN Append(Without(c, i), e) ELSE Append(c, e)

\* a set that makes room by dropping the most recently used entry
CacheSetEvictNewest(c, k, v, t) ==
    LET i == IndexOf(c, k)
        e == [key |-> k, value |-> v, start |-> t]
    IN  IF i # 0 THEN Append(Without(c, i), e)
        ELSE IF Len(c) >= maxEntries THEN Append(SubSeq(c, 1, Len(c) - 1), e)
        ELSE Append(c, e)

\* LRUCache.set: the entry becomes the most recently used one and its age
\* restarts; a new key in a full cache evicts the least recently used entry
CacheSet(c, k, v, t) ==
    LET i == IndexOf(c, k)
        e == [key |-> k, value |-> v, start |-> t]
    IN  IF i # 0 THEN Touch(c, i, e)
        ELSE IF Len(c) >= maxEntries THEN Append(Tail(c), e)
        ELSE Append(c, e)

---------------------------------------------------------------------------
(* The logger the plugin gets from loggerPlugin() (line 78) *)

\* loggerPlugin's defaults (lines 256-257): logLevel 'info', a filePath is set
logLevel == "info"
hasFilePath == TRUE

LevelRank(level) ==
    CASE level = "debug" -> 0 [] level = "info" -> 1
      [] level = "warn" -> 2 [] level = "error" -> 3

shouldLog(messageLevel, minLevel) == LevelRank(messageLevel) >= LevelRank(minLevel)

\* a log line that carries the level alone
LogConsoleWithoutMessage(level, message) ==
    IF LevelRank(level) >= LevelRank(logLevel)
    THEN Append(console, [level |-> level, message |-> <<>>])
    ELSE console

\* Logger.log: the console line, and the file write added to the queue; a
\* write is named by its position among the logged lines
LogConsole(level, message) ==
    IF shouldLog(level, logLevel)
    THEN Append(console, [level |-> level, message |-> message])
    ELSE console

LogQueue(level) ==
    IF shouldLog(level, logLevel) /\ hasFilePath
    THEN fileWriteQueue \cup {Len(console) + 1}
    ELSE fileWriteQueue

\* logToFile without its catch: the promise rejects when the write fails
logToFileUncaught(written) == IF written THEN "fulfilled" ELSE "rejected"

\* lines 228-238: how the promise of logToFile settles; a failure of mkdir or
\* appendFile is caught and printed, so the promise is fulfilled either way
logToFile(written) == "fulfilled"

\* the write w ends, written or failed: the promise of logToFile settles and
\* its finally-callback (line 182) takes it out of the queue
Settle(w, written) ==
    /\ w \in fileWriteQueue
    /\ fileWriteQueue' = fileWriteQueue \ {w}
    /\ settled' = [x \in DOMAIN settled \cup {w} |->
                      IF x = w THEN [written |-> written, promise |-> logToFile(written)]
                      ELSE settled[x]]

\* the line reached the file
WriteSettled(w) ==
    /\ Settle(w, TRUE)
    /\ UNCHANGED <<options, now, cache, otherCache, req, hist, console, flush>>

\* mkdir or appendFile failed
WriteFailed(w) ==
    /\ Settle(w, FALSE)
    /\ UNCHANGED <<options, now, cache, otherCache, req, hist, console, flush>>

LogLevels == {"debug", "info", "warn", "error"}

\* Logger.log called by any of its callers (the hooks of loggerPlugin, lines
\* 268-280, or the limiter, line 105)
Log(level) ==
    /\ Len(console) < MaxLog
    /\ console' = LogConsole(level, <<>>)
    /\ fileWriteQueue' = LogQueue(level)
    /\ UNCHANGED <<options, now, cache, otherCache, req, hist, settled, flush>>

\* the server stops: onStop calls flush() (line 281), which takes the writes
\* that are in the queue at that moment (line 241)
Stop ==
    /\ flush.state = "idle"
    /\ flush' = [state |-> "pending", awaited |-> fileWriteQueue]
    /\ UNCHANGED <<options, now, cache, otherCache, req, hist, console, fileWriteQueue, settled>>

\* Promise.all (line 241): rejected once one of the promises is rejected,
\* fulfilled once all of them are fulfilled
FlushSettled ==
    /\ flush.state = "pending"
    /\ IF \E w \in flush.awaited \cap DOMAIN settled : settled[w].promise = "rejected"
       THEN flush' = [flush EXCEPT !.state = "rejected"]
       ELSE /\ flush.awaited \subseteq DOMAIN settled
            /\ flush' = [flush EXCEPT !.state = "resolved"]
    /\ UNCHANGED <<options, now, cache, otherCache, req, hist, console, fileWriteQueue, settled>>

---------------------------------------------------------------------------
(* The onRequest hook of rateLimitPlugin *)

NoHeaders == [n \in {} |-> <<>>]

SetHeader(h, name, value) ==
    [n \in DOMAIN h \cup {name} |-> IF n = name THEN value ELSE h[n]]

\* set.status is undefined until the hook assigns it, and a hook that returns
\* nothing returns the empty body
Unset == 0

NewReq ==
    [pc |-> "new", plugin |-> 1, request |-> <<>>, key |-> "", skip |-> "pending",
     now |-> 0, entry |-> NoValue,
     status |-> Unset, headers |-> NoHeaders, body |-> <<>>]

\* the requests that arrive: request.headers.entries(), sorted by name as the
\* Headers iterator yields them
Requests ==
    { << <<"x-real-ip", "10.0.0.1">> >>,
      << <<"forwarded", "for=10.0.0.2">> >>,
      << <<"x-forwarded-for", "10.0.0.3">> >> }

\* errorResponse given as a function of the request (lines 106-107)
errorResponseFn(request) ==
    IF Len(request) = 0 THEN <<"blocked">> ELSE <<"blocked", request[1][2]>>

ErrorBody(request) ==
    IF options.errorResponse = "function" THEN errorResponseFn(request)
    ELSE <<options.errorResponse>>

InFlight == {r \in Req : req[r].pc = "awaiting"}
Bypassed == {r \in Req : req[r].skip \in {"true", "throws"} \/ req[r].pc = "failed"}

\* lines 80-81 up to the await: the key is derived and skip is called
Start(r, request) ==
    /\ req[r].pc = "new"
    /\ Cardinality(InFlight) < MaxInFlight
    /\ IF r = 1 THEN TRUE ELSE req[r - 1].pc # "new"
    /\ req' = [req EXCEPT ![r] = [@ EXCEPT !.pc = "awaiting",
                                            !.request = request,
                                            !.key = keyGenerator(request)]]
    /\ UNCHANGED <<options, now, cache, otherCache, hist, console, fileWriteQueue, settled, flush>>

\* line 80 throws: the keyGenerator the host gave in the options fails on
\* this request, before skip is called, and the hook's promise rejects
KeyFailed(r, request) ==
    /\ req[r].pc = "new"
    /\ Cardinality(InFlight) < MaxInFlight
    /\ Cardinality(Bypassed) < MaxBypass
    /\ IF r = 1 THEN TRUE ELSE req[r - 1].pc # "new"
    /\ req' = [req EXCEPT ![r] = [@ EXCEPT !.pc = "failed", !.request = request]]
    /\ UNCHANGED <<options, now, cache, otherCache, hist, console, fileWriteQueue, settled, flush>>

\* line 87 without the test of the window's end
OnlyMissing(got, t) == ~got.found

\* line 87 with >= in place of >
WindowOverAtEnd(got, t) == ~got.found \/ t >= got.value.reset

\* line 87: no entry, or its window is over
WindowOver(got, t) == ~got.found \/ t > got.value.reset

\* lines 86-91 with the count clamped one above the limit
AccountClamped(got, t) ==
    LET entry == IF ~got.found \/ t > got.value.reset
                 THEN [count |-> 0, reset |-> t + options.duration]
                 ELSE got.value
    IN  [entry EXCEPT !.count = IF @ > options.maxRequests THEN @ ELSE @ + 1]

\* lines 86-91 with the window's end moved by every request
AccountSliding(got, t) ==
    LET entry == IF ~got.found \/ t > got.value.reset
                 THEN [count |-> 0, reset |-> t + options.duration]
                 ELSE got.value
    IN  [count |-> entry.count + 1, reset |-> t + options.duration]

\* lines 86-91: the entry this request counts in, after the increment
Account(got, t) ==
    LET entry == IF WindowOver(got, t)
                 THEN [count |-> 0, reset |-> t + options.duration]
                 ELSE got.value
    IN  [entry EXCEPT !.count = @ + 1]

\* lines 94-99
RateLimitHeaders(h, entry) ==
    LET h1 == SetHeader(h, "RateLimit-Limit", toString(options.maxRequests))
        h2 == SetHeader(h1, "RateLimit-Remaining",
                        toString(Max(0, options.maxRequests - entry.count)))
    IN  SetHeader(h2, "RateLimit-Reset", toString(CeilSeconds(entry.reset)))

\* line 101 with >= in place of >
ExceededAtLimit(entry) == entry.count >= options.maxRequests

\* line 101
Exceeded(entry) == entry.count > options.maxRequests

\* the skip check placed after the read of the cache
SkippedAfterRead(r) ==
    /\ req[r].pc = "awaiting"
    /\ Cardinality(Bypassed) < MaxBypass
    /\ req' = [req EXCEPT ![r] = [@ EXCEPT !.pc = "done", !.skip = "true"]]
    /\ cache' = CacheGet(cache, req[r].key, now).cache
    /\ UNCHANGED <<options, now, otherCache, hist, console, fileWriteQueue, settled, flush>>

\* the skip predicate resolved to true: line 81 returns
Skipped(r) ==
    /\ req[r].pc = "awaiting"
    /\ Cardinality(Bypassed) < MaxBypass
    /\ req' = [req EXCEPT ![r] = [@ EXCEPT !.pc = "done", !.skip = "true"]]
    /\ UNCHANGED <<options, now, cache, otherCache, hist, console, fileWriteQueue, settled, flush>>

\* the failure of the skip predicate caught and answered with a denial
SkipFailedDenied(r) ==
    /\ req[r].pc = "awaiting"
    /\ Cardinality(Bypassed) < MaxBypass
    /\ req' = [req EXCEPT ![r] = [@ EXCEPT !.pc = "done", !.skip = "throws",
                                            !.status = 429,
                                            !.body = ErrorBody(req[r].request)]]
    /\ UNCHANGED <<options, now, cache, otherCache, hist, console, fileWriteQueue, settled, flush>>

\* the skip predicate threw or its promise rejected: the await throws and the
\* hook's promise rejects
SkipFailed(r) ==
    /\ req[r].pc = "awaiting"
    /\ Cardinality(Bypassed) < MaxBypass
    /\ req' = [req EXCEPT ![r] = [@ EXCEPT !.pc = "failed", !.skip = "throws"]]
    /\ UNCHANGED <<options, now, cache, otherCache, hist, console, fileWriteQueue, settled, flush>>

\* the clock read before the await: the last reading taken before the hook
\* was resumed
DateNowBeforeAwait(t) == now

\* line 83: Date.now() is called after the await, when the hook is resumed
\* at time t
DateNow(t) == t

\* the skip predicate resolved to false: lines 83-116 run to the end at time
\* t; the cache reads the clock itself
Resume(r, t) ==
    /\ req[r].pc = "awaiting"
    /\ req[r].plugin = 1
    /\ t >= now
    /\ now' = t
    /\ LET key == req[r].key
           got == CacheGet(cache, key, t)
           entry == Account(got, DateNow(t))
           hdrs == RateLimitHeaders(req[r].headers, entry)
       IN  /\ cache' = CacheSet(got.cache, key, entry, t)
           /\ hist' = Append(hist, r)
           /\ IF Exceeded(entry)
              THEN /\ req' = [req EXCEPT ![r] =
                         [@ EXCEPT !.pc = "done", !.skip = "false",
                                   !.now = DateNow(t), !.entry = entry,
                                   !.status = 429,
                                   !.headers = SetHeader(hdrs, "Retry-After",
                                       toString(CeilSeconds(options.duration))),
                                   !.body = ErrorBody(req[r].request)]]
                   /\ console' = LogConsole("warn", <<"Rate limit exceeded for key: ", key>>)
                   /\ fileWriteQueue' = LogQueue("warn")
              ELSE /\ req' = [req EXCEPT ![r] =
                         [@ EXCEPT !.pc = "done", !.skip = "false",
                                   !.now = DateNow(t), !.entry = entry,
                                   !.headers = hdrs]]
                   /\ UNCHANGED <<console, fileWriteQueue>>
    /\ UNCHANGED <<options, otherCache, settled, flush>>

\* a request arrives on a route that a second plugin instance guards, made
\* by another call of rateLimitPlugin with the same options
StartOther(r, request) ==
    /\ req[r].pc = "new"
    /\ Cardinality(InFlight) < MaxInFlight
    /\ IF r = 1 THEN TRUE ELSE req[r - 1].pc # "new"
    /\ req' = [req EXCEPT ![r] = [@ EXCEPT !.pc = "awaiting", !.plugin = 2,
                                            !.request = request,
                                            !.key = keyGenerator(request)]]
    /\ UNCHANGED <<options, now, cache, otherCache, hist, console, fileWriteQueue, settled, flush>>

\* one context at module level, used by every plugin instance
contextShared(plugin) == 1

\* line 75: every call of rateLimitPlugin constructs its own context, which
\* its hook closes over
contextOf(plugin) == plugin

\* lines 83-116 in the hook of the second plugin instance, on its own context
ResumeOther(r, t) ==
    /\ req[r].pc = "awaiting"
    /\ req[r].plugin = 2
    /\ t >= now
    /\ now' = t
    /\ LET key == req[r].key
           context == IF contextOf(req[r].plugin) = 1 THEN cache ELSE otherCache
           got == CacheGet(context, key, t)
           entry == Account(got, DateNow(t))
           hdrs == RateLimitHeaders(req[r].headers, entry)
       IN  /\ IF contextOf(req[r].plugin) = 1
              THEN /\ cache' = CacheSet(got.cache, key, entry, t)
                   /\ UNCHANGED otherCache
              ELSE /\ otherCache' = CacheSet(got.cache, key, entry, t)
                   /\ UNCHANGED cache
           /\ IF Exceeded(entry)
              THEN /\ req' = [req EXCEPT ![r] =
                         [@ EXCEPT !.pc = "done", !.skip = "false",
                                   !.now = DateNow(t), !.entry = entry,
                                   !.status = 429,
                                   !.headers = SetHeader(hdrs, "Retry-After",
                                       toString(CeilSeconds(options.duration))),
                                   !.body = ErrorBody(req[r].request)]]
                   /\ console' = LogConsole("warn", <<"Rate limit exceeded for key: ", key>>)
                   /\ fileWriteQueue' = LogQueue("warn")
              ELSE /\ req' = [req EXCEPT ![r] =
                         [@ EXCEPT !.pc = "done", !.skip = "false",
                                   !.now = DateNow(t), !.entry = entry,
                                   !.headers = hdrs]]
                   /\ UNCHANGED <<console, fileWriteQueue>>
    /\ UNCHANGED <<options, hist, settled, flush>>

\* the instants at which the clock is read: the start, the instant at which an
\* entry written at the start reaches the end of its window or its ttl,
\* whichever comes first, and the millisecond after it
Min(a, b) == IF a <= b THEN a ELSE b
FirstExpiry == Min(options.duration, ttl)
Instants == {0, FirstExpiry, FirstExpiry + 1}

---------------------------------------------------------------------------
(* The specification *)

\* the options the plugin is constructed with: a limit of 2 and one of 1, a
\* window shorter than the cache's ttl and one longer than it, errorResponse
\* as a string (the default) and as a function
OptionSets ==
    { [maxRequests |-> 2, duration |-> 1000, errorResponse |-> "Too many requests"],
      [maxRequests |-> 1, duration |-> 1000, errorResponse |-> "function"],
      [maxRequests |-> 2, duration |-> 7200001, errorResponse |-> "Too many requests"] }

\* rateLimitPlugin(options) has run: the options are destructured and the
\* context is constructed with an empty cache (lines 67-75)
Init ==
    /\ options \in OptionSets
    /\ now = 0
    /\ cache = <<>>
    /\ otherCache = <<>>
    /\ req = [r \in Req |-> NewReq]
    /\ hist = <<>>
    /\ console = <<>>
    /\ fileWriteQueue = {}
    /\ settled = [w \in {} |-> [written |-> TRUE, promise |-> "fulfilled"]]
    /\ flush = [state |-> "idle", awaited |-> {}]

Next ==
    \/ \E r \in Req, request \in Requests : Start(r, request)
    \/ \E r \in Req, request \in Requests : KeyFailed(r, request)
    \/ \E r \in Req : Skipped(r)
    \/ \E r \in Req : SkipFailed(r)
    \/ \E r \in Req, t \in Instants : Resume(r, t)
    \/ \E w \in fileWriteQueue : WriteSettled(w)

Spec == Init /\ [][Next]_vars

\* the logger on its own: lines are logged, their file writes end one way or
\* the other, and the server stops once
LoggerNext ==
    \/ \E level \in LogLevels : Log(level)
    \/ \E w \in fileWriteQueue : WriteSettled(w)
    \/ \E w \in fileWriteQueue : WriteFailed(w)
    \/ Stop
    \/ FlushSettled

LoggerSpec == Init /\ [][LoggerNext]_vars

\* two plugin instances side by side: every request goes through the hook of
\* one of them
TwoNext ==
    \/ \E r \in Req, request \in Requests : Start(r, request)
    \/ \E r \in Req, request \in Requests : StartOther(r, request)
    \/ \E r \in Req, t \in Instants : Resume(r, t)
    \/ \E r \in Req, t \in Instants : ResumeOther(r, t)

TwoSpec == Init /\ [][TwoNext]_vars

---------------------------------------------------------------------------
(* What the history says.  The requests of hist are numbered by position;  *)
(* the window a request falls in and the number of requests counted in it  *)
(* are derived from the keys and the times of the history alone, without   *)
(* the counters the hook keeps.                                            *)

Pos == 1..Len(hist)
K(i) == req[hist[i]].key
T(i) == req[hist[i]].now
Counted(i) == req[hist[i]].entry.count
ResetAt(i) == req[hist[i]].entry.reset

\* the previous request of the same key, 0 if there is none
Prev(i) ==
    IF \E j \in 1..(i - 1) : K(j) = K(i)
    THEN CHOOSE j \in 1..(i - 1) :
             K(j) = K(i) /\ \A m \in (j + 1)..(i - 1) : K(m) # K(i)
    ELSE 0

\* the other keys accounted between the previous request of the key and this one
KeysSince(i) == {K(m) : m \in (Prev(i) + 1)..(i - 1)}

\* the key's entry was pushed out of the cache by maxEntries other keys
Evicted(i) == Prev(i) # 0 /\ Cardinality(KeysSince(i)) >= maxEntries

\* the key's entry was last written more than the ttl ago
AgedOut(i) == Prev(i) # 0 /\ T(i) - T(Prev(i)) > ttl

\* the ledger of the history, one line per request: whether it is counted
\* in the window of the key's previous request, the start of its window, the
\* requests of its window up to it, and whether all of these arrived before
\* the window's end
RECURSIVE Ledger(_)
Ledger(n) ==
    IF n = 0 THEN <<>>
    ELSE LET L == Ledger(n - 1)
             p == Prev(n)
             cont == /\ p # 0
                     /\ ~Evicted(n)
                     /\ ~AgedOut(n)
                     /\ T(n) <= L[p].start + options.duration
             start == IF cont THEN L[p].start ELSE T(n)
         IN  Append(L, [continues |-> cont,
                        start |-> start,
                        run |-> IF cont THEN L[p].run \cup {n} ELSE {n},
                        strict |-> /\ cont => L[p].strict
                                   /\ T(n) < start + options.duration])

Book == Ledger(Len(hist))
Continues(i) == Book[i].continues
WindowStart(i) == Book[i].start
Run(i) == Book[i].run
Seen(i) == Cardinality(Book[i].run)
StrictlyInside(i) == Book[i].strict

\* the keys of the history by last use, least recent first
RECURSIVE LastUse(_)
LastUse(n) ==
    IF n = 0 THEN <<>>
    ELSE LET k == req[hist[n]].key
             NotK(x) == x # k
         IN  Append(SelectSeq(LastUse(n - 1), NotK), k)

LastN(s, n) == IF Len(s) <= n THEN s ELSE SubSeq(s, Len(s) - n + 1, Len(s))

CacheKeys == [i \in 1..Len(cache) |-> cache[i].key]

DigitValue(c) ==
    CASE c = "0" -> 0 [] c = "1" -> 1 [] c = "2" -> 2 [] c = "3" -> 3
      [] c = "4" -> 4 [] c = "5" -> 5 [] c = "6" -> 6 [] c = "7" -> 7
      [] c = "8" -> 8 [] c = "9" -> 9

RECURSIVE ParseDigits(_)
ParseDigits(s) ==
    IF Len(s) = 0 THEN 0
    ELSE 10 * ParseDigits(SubSeq(s, 1, Len(s) - 1)) + DigitValue(s[Len(s)])

\* the number a header value denotes
ParseInt(s) == IF s[1] = "-" THEN 0 - ParseDigits(Tail(s)) ELSE ParseDigits(s)

Accounted(r) == req[r].pc = "done" /\ req[r].skip = "false"
Header(r, name) == ParseInt(req[r].headers[name])
HasHeader(r, name) == name \in DOMAIN req[r].headers
Admitted(r) == req[r].status = Unset /\ req[r].body = <<>> /\ ~HasHeader(r, "Retry-After")
Rejected(r) == req[r].status = 429 /\ HasHeader(r, "Retry-After")

---------------------------------------------------------------------------
(* Claims *)

LastEntry == cache[Len(cache)]

\* C1: of the requests of one key that arrive inside one window, with the
\* key's entry not evicted in between, the first maxRequests are admitted and
\* every later one is rejected with status 429 and a Retry-After header; the
\* count is not clamped: the n-th request of the window sees and stores n.
C1_CountsPastLimit ==
    LET B == Book IN
    \A i \in Pos :
        B[i].strict =>
            /\ Counted(i) = Cardinality(B[i].run)
            /\ Cardinality(B[i].run) <= options.maxRequests => Admitted(hist[i])
            /\ Cardinality(B[i].run) > options.maxRequests => Rejected(hist[i])
            /\ i = Len(hist) =>
                   /\ LastEntry.key = K(i)
                   /\ LastEntry.value.count = Cardinality(B[i].run)

\* a second request of a window is rejected: the count moves past the limit
C1_Witness ==
    LET B == Book IN
    \E i \in Pos :
        /\ B[i].strict
        /\ Cardinality(B[i].run) >= options.maxRequests + 2
        /\ Rejected(hist[i])
        /\ Rejected(hist[Prev(i)])

\* C2: the first maxRequests requests of one key inside one window are all
\* admitted, each with RateLimit-Limit = maxRequests, and the n-th of them
\* with RateLimit-Remaining = maxRequests - n, so Remaining goes down by one
\* from one request to the next.
C2_WithinLimit ==
    LET B == Book IN
    \A i \in Pos :
        (B[i].strict /\ Cardinality(B[i].run) <= options.maxRequests) =>
            /\ Admitted(hist[i])
            /\ Header(hist[i], "RateLimit-Limit") = options.maxRequests
            /\ Header(hist[i], "RateLimit-Remaining") = options.maxRequests - Cardinality(B[i].run)
            /\ B[i].continues =>
                   Header(hist[i], "RateLimit-Remaining")
                       = Header(hist[Prev(i)], "RateLimit-Remaining") - 1

\* the window's last admitted request, after an earlier one
C2_Witness ==
    LET B == Book IN
    \E i \in Pos :
        /\ B[i].strict
        /\ B[i].continues
        /\ Cardinality(B[i].run) = options.maxRequests
        /\ Admitted(hist[i])

\* C3: no lost update, whatever the order in which the suspended requests
\* resume: the requests of one key inside one window see the counts 1, 2, ...
\* with no duplicate and no gap, the stored count is their number, and while
\* their number is at most maxRequests the Remaining values they see are
\* exactly maxRequests - 1 down to maxRequests - (their number).
C3_NoLostUpdate ==
    LET B == Book IN
    \A i \in Pos :
        B[i].strict =>
            /\ {Counted(j) : j \in B[i].run} = 1..Cardinality(B[i].run)
            /\ \A j, m \in B[i].run : Counted(j) = Counted(m) => j = m
            /\ Cardinality(B[i].run) <= options.maxRequests =>
                   {Header(hist[j], "RateLimit-Remaining") : j \in B[i].run}
                       = (options.maxRequests - Cardinality(B[i].run))..(options.maxRequests - 1)
            /\ (\A m \in Pos : m > i => K(m) # K(i)) /\ Has(cache, K(i)) =>
                   cache[IndexOf(cache, K(i))].value.count = Cardinality(B[i].run)

\* two requests of one key were suspended together and resumed in the
\* opposite order of their arrival, inside one window
C3_Witness ==
    LET B == Book IN
    \E i, j \in Pos :
        /\ j < i
        /\ hist[j] > hist[i]
        /\ B[i].strict
        /\ j \in B[i].run
        /\ Cardinality(B[i].run) <= options.maxRequests

\* C4: a request that finds its key's counter with now > resetAt starts a
\* fresh window: it sees and stores count 1 and resetAt = now + duration, and
\* it is admitted with RateLimit-Remaining = maxRequests - 1, whatever the
\* count of the window before.
C4_Rollover ==
    LET B == Book IN
    \A i \in Pos :
        ( /\ Prev(i) # 0
          /\ ~Evicted(i)
          /\ ~AgedOut(i)
          /\ T(i) > B[Prev(i)].start + options.duration ) =>
            /\ Counted(i) = 1
            /\ ResetAt(i) = T(i) + options.duration
            /\ Admitted(hist[i])
            /\ Header(hist[i], "RateLimit-Remaining") = options.maxRequests - 1
            /\ i = Len(hist) =>
                   /\ LastEntry.key = K(i)
                   /\ LastEntry.value = [count |-> 1, reset |-> T(i) + options.duration]

\* a request after the end of a window whose count was above maxRequests
C4_Witness ==
    LET B == Book IN
    \E i \in Pos :
        /\ Prev(i) # 0
        /\ ~Evicted(i)
        /\ ~AgedOut(i)
        /\ T(i) > B[Prev(i)].start + options.duration
        /\ Cardinality(B[Prev(i)].run) > options.maxRequests + 1
        /\ Admitted(hist[i])

\* C5: when the skip predicate returns true the hook returns at once: the
\* cache is neither read (no entry changes place) nor written, nothing is
\* logged, the response gets no header, no status and no body, and no other
\* request is touched.
C5_SkipLeavesAllUnchanged ==
    [][\A r \in Req :
          (req[r].skip = "pending" /\ req'[r].skip = "true") =>
              /\ cache' = cache
              /\ hist' = hist
              /\ now' = now
              /\ console' = console
              /\ fileWriteQueue' = fileWriteQueue
              /\ req'[r].pc = "done"
              /\ req'[r].headers = NoHeaders
              /\ req'[r].status = Unset
              /\ req'[r].body = <<>>
              /\ \A q \in Req \ {r} : req'[q] = req[q]]_vars

\* a skipped request whose key is the least recently used entry of the full
\* cache: a read would have made it the most recently used one
C5_Witness ==
    \E r \in Req :
        /\ req[r].skip = "true"
        /\ req[r].pc = "done"
        /\ Len(cache) = maxEntries
        /\ cache[1].key = req[r].key

\* C6: the cache holds the keys of the maxEntries most recently accounted
\* requests, least recent first, so a new key in a full cache evicts exactly
\* the least recently used entry; every key it holds has the entry its last
\* request wrote; and the next request of an evicted key starts a fresh
\* window with count 1.
C6_EvictsLeastRecentlyUsed ==
    /\ CacheKeys = LastN(LastUse(Len(hist)), maxEntries)
    /\ \A i \in Pos :
           /\ Evicted(i) =>
                  /\ Counted(i) = 1
                  /\ ResetAt(i) = T(i) + options.duration
           /\ (Has(cache, K(i)) /\ \A m \in Pos : m > i => K(m) # K(i)) =>
                  cache[IndexOf(cache, K(i))].value
                      = [count |-> Counted(i), reset |-> ResetAt(i)]

\* the next request of a key that was evicted from the full cache while its
\* window was open: it is counted as the first of a fresh window
C6_Witness ==
    \E i \in Pos :
        /\ Evicted(i)
        /\ ~AgedOut(i)
        /\ T(i) <= ResetAt(Prev(i))
        /\ Len(cache) = maxEntries
        /\ Counted(i) = 1

\* C7: no entry is dropped because of its age while its window is still
\* open, as holds when a duration longer than the cache's ttl is refused.
C7_NoExpiryInOpenWindow ==
    LET B == Book IN
    \A i \in Pos :
        (AgedOut(i) /\ ~Evicted(i)) => T(i) > B[Prev(i)].start + options.duration

\* C8: every accounted request has the headers RateLimit-Limit,
\* RateLimit-Remaining and RateLimit-Reset, with Limit = maxRequests and
\* Remaining = max(0, maxRequests - count) for its count after the increment:
\* never negative, and 0 on a rejected request.
C8_HeadersOnEveryRequest ==
    \A r \in Req :
        Accounted(r) =>
            /\ {"RateLimit-Limit", "RateLimit-Remaining", "RateLimit-Reset"}
                   \subseteq DOMAIN req[r].headers
            /\ Header(r, "RateLimit-Limit") = options.maxRequests
            /\ Header(r, "RateLimit-Remaining") =
                   (IF req[r].entry.count < options.maxRequests
                    THEN options.maxRequests - req[r].entry.count ELSE 0)
            /\ req[r].headers["RateLimit-Remaining"][1] # "-"
            /\ req[r].status = 429 => Header(r, "RateLimit-Remaining") = 0

\* a rejected request whose count is more than one above the limit
C8_Witness ==
    \E r \in Req :
        /\ Accounted(r)
        /\ req[r].status = 429
        /\ req[r].entry.count > options.maxRequests + 1

\* C9: a request gets status 429, Retry-After = ceil(duration / 1000) and the
\* error body exactly when its count after the increment is above
\* maxRequests; any other request keeps its status, gets no Retry-After and
\* no body.
C9_RejectIffOverLimit ==
    \A r \in Req :
        IF Accounted(r) /\ req[r].entry.count > options.maxRequests
        THEN /\ req[r].status = 429
             /\ HasHeader(r, "Retry-After")
             /\ Header(r, "Retry-After") * 1000 >= options.duration
             /\ (Header(r, "Retry-After") - 1) * 1000 < options.duration
             /\ req[r].body # <<>>
             /\ options.errorResponse # "function" =>
                    req[r].body = <<options.errorResponse>>
        ELSE /\ req[r].status = Unset
             /\ ~HasHeader(r, "Retry-After")
             /\ req[r].body = <<>>

\* a rejected request under a duration that is no whole number of seconds,
\* beside an admitted one
C9_Witness ==
    \E r, q \in Req :
        /\ Accounted(r)
        /\ req[r].status = 429
        /\ options.duration % 1000 # 0
        /\ Accounted(q)
        /\ req[q].status = Unset

\* the headers the README names for the default key generator (README.md line 77)
DocumentedKeyHeaders == {"x-forwarded-for", "x-real-ip", "forwarded"}
IsDocumentedKeyHeader(e) == e[1] \in DocumentedKeyHeaders

\* C10: with the default key generator the key of a request is the value of
\* its first x-forwarded-for, x-real-ip or forwarded header, and "unknown"
\* only when it has none of them.
C10_KeyFromProxyHeader ==
    \A r \in Req :
        req[r].pc # "new" =>
            LET found == SelectSeq(req[r].request, IsDocumentedKeyHeader)
            IN  IF Len(found) > 0 THEN req[r].key = found[1][2]
                ELSE req[r].key = "unknown"

\* C11: when the key generator or the skip predicate throws, the hook's
\* promise rejects with that failure and the limiter gives no verdict: the
\* cache is neither read nor written, nothing is logged, the response gets
\* no RateLimit-* or Retry-After header, no status and no body, and no other
\* request is touched.
C11_FailurePropagates ==
    [][\A r \in Req :
          ( \/ req[r].skip = "pending" /\ req'[r].skip = "throws"
            \/ req[r].pc = "new" /\ req'[r].pc \notin {"new", "awaiting"} ) =>
              /\ req'[r].pc = "failed"
              /\ cache' = cache
              /\ hist' = hist
              /\ now' = now
              /\ console' = console
              /\ fileWriteQueue' = fileWriteQueue
              /\ req'[r].headers = NoHeaders
              /\ req'[r].status = Unset
              /\ req'[r].body = <<>>
              /\ req'[r].entry = NoValue
              /\ \A q \in Req \ {r} : req'[q] = req[q]]_vars

\* the skip predicate failed on a request whose key had used up its limit:
\* an accounted request would have been rejected
C11_Witness ==
    \E r \in Req :
        /\ req[r].pc = "failed"
        /\ req[r].skip = "throws"
        /\ Has(cache, req[r].key)
        /\ cache[IndexOf(cache, req[r].key)].value.count >= options.maxRequests

\* C12 as stated: a window is half-open: every request is counted in a window
\* [windowStart, resetAt) with windowStart <= t < resetAt, and a request that
\* finds its key's counter at exactly t = resetAt is counted as the first of a
\* fresh window.
C12_HalfOpenWindow ==
    \A i \in Pos :
        /\ ResetAt(i) - options.duration <= T(i)
        /\ T(i) < ResetAt(i)
        /\ (Prev(i) # 0 /\ T(i) = ResetAt(Prev(i))) =>
               /\ Counted(i) = 1
               /\ ResetAt(i) = T(i) + options.duration

\* C12 amended: a window is the closed interval [windowStart, resetAt]: every
\* request is counted in a window with windowStart <= t <= resetAt; a request
\* that finds its key's counter at exactly t = resetAt is added to the window
\* that ends at resetAt (count + 1, same resetAt), and only one at t > resetAt
\* is counted as the first of a fresh window.
C12_ClosedWindow ==
    \A i \in Pos :
        /\ ResetAt(i) - options.duration <= T(i)
        /\ T(i) <= ResetAt(i)
        /\ (Prev(i) # 0 /\ ~Evicted(i) /\ ~AgedOut(i)) =>
               IF T(i) <= ResetAt(Prev(i))
               THEN /\ Counted(i) = Counted(Prev(i)) + 1
                    /\ ResetAt(i) = ResetAt(Prev(i))
               ELSE /\ Counted(i) = 1
                    /\ ResetAt(i) = T(i) + options.duration

\* a request at exactly the resetAt of its key's counter, the counter still
\* in the cache, and after it a request one millisecond later
C12_Witness ==
    \E i, j \in Pos :
        /\ Prev(i) # 0
        /\ ~Evicted(i)
        /\ ~AgedOut(i)
        /\ T(i) = ResetAt(Prev(i))
        /\ Counted(i) >= 2
        /\ Prev(j) = i
        /\ T(j) = ResetAt(i) + 1
        /\ Counted(j) = 1

\* C13: the cache never holds more than maxEntries entries, and never two
\* entries of one key, whatever keys arrive and in whatever order.
C13_CapacityBound ==
    /\ Len(cache) <= maxEntries
    /\ \A i, j \in 1..Len(cache) : cache[i].key = cache[j].key => i = j

\* the cache is full after more distinct keys than it can hold were
\* accounted, one of them twice
C13_Witness ==
    /\ Len(cache) = maxEntries
    /\ Cardinality({K(i) : i \in Pos}) > maxEntries
    /\ \E i \in Pos : Prev(i) # 0

\* C14: the step that accounts a request of key A leaves the entry of every
\* other key B as it was (count, resetAt and age), and leaves the response of
\* every other request as it was; the one exception is that B's entry is
\* removed when A is a new key, the cache is full and B is its least
\* recently used entry.
C14_OtherKeysUntouched ==
    [][\A r \in Req :
          hist' = Append(hist, r) =>
              /\ \A q \in Req \ {r} : req'[q] = req[q]
              /\ \A i \in 1..Len(cache) :
                     cache[i].key # req[r].key =>
                         \/ /\ Has(cache', cache[i].key)
                            /\ cache'[IndexOf(cache', cache[i].key)] = cache[i]
                         \/ /\ ~Has(cache', cache[i].key)
                            /\ i = 1
                            /\ Len(cache) = maxEntries
                            /\ ~Has(cache, req[r].key)
              /\ \A i \in 1..Len(cache') :
                     cache'[i].key # req[r].key => Has(cache, cache'[i].key)]_vars

\* a request of a new key was accounted while the cache was full: the least
\* recently used key is gone and the other key's entry, whose count is past
\* the limit, is still there
C14_Witness ==
    /\ Len(hist) >= 3
    /\ Len(cache) = maxEntries
    /\ Cardinality({K(i) : i \in Pos}) > maxEntries
    /\ Prev(Len(hist)) = 0
    /\ cache[1].key # K(Len(hist))
    /\ cache[1].value.count > options.maxRequests

\* C16: the log holds exactly one event per rejected request, in the order
\* of the rejections, each of level warn with the message "Rate limit
\* exceeded for key: " followed by the request's key; admitted, skipped and
\* failed requests leave no event.
C16_OneWarnPerRejection ==
    LET rejected == SelectSeq(hist, Rejected) IN
    /\ \A r \in Req : Rejected(r) => \E i \in Pos : hist[i] = r
    /\ console =
           [i \in 1..Len(rejected) |->
               [level |-> "warn",
                message |-> <<"Rate limit exceeded for key: ", req[rejected[i]].key>>]]

\* two requests of different keys were rejected, after admitted ones
C16_Witness ==
    /\ Len(console) = 2
    /\ console[1].message # console[2].message
    /\ \E r \in Req : Accounted(r) /\ Admitted(r)

\* C18: the resetAt of a window is fixed by the request that opens it, at
\* that request's time + duration: every later request of the window,
\* admitted or rejected, sees and stores the same resetAt and gets the same
\* RateLimit-Reset, which is resetAt in seconds, rounded up.
C18_FixedWindow ==
    LET B == Book IN
    \A i \in Pos :
        /\ ResetAt(i) = B[i].start + options.duration
        /\ Header(hist[i], "RateLimit-Reset") * 1000 >= ResetAt(i)
        /\ (Header(hist[i], "RateLimit-Reset") - 1) * 1000 < ResetAt(i)
        /\ B[i].continues =>
               /\ ResetAt(i) = ResetAt(Prev(i))
               /\ req[hist[i]].headers["RateLimit-Reset"]
                      = req[hist[Prev(i)]].headers["RateLimit-Reset"]
        /\ (\A m \in Pos : m > i => K(m) # K(i)) /\ Has(cache, K(i)) =>
               cache[IndexOf(cache, K(i))].value.reset = B[i].start + options.duration

\* a request rejected later than the start of its window, after another
\* rejected one, under a resetAt that is no whole number of seconds
C18_Witness ==
    LET B == Book IN
    \E i \in Pos :
        /\ B[i].continues
        /\ T(i) > B[i].start
        /\ Rejected(hist[i])
        /\ ResetAt(i) % 1000 # 0

\* C19: a request is accounted in the step in which its skip predicate
\* resolves, with the clock read in that step: the requests are counted in
\* the order of these steps, whatever the order of their arrival; a request
\* that finds its key's counter still open is counted after every request
\* resumed before it and is rejected exactly when that count is above
\* maxRequests; and one that was suspended while the clock passed the
\* counter's resetAt is counted as the first of a window that starts when it
\* resumes.
C19_AccountedOnResume ==
    [][\A r \in Req :
          (req[r].pc = "awaiting" /\ req'[r].pc = "done" /\ req'[r].skip = "false") =>
              LET i == IndexOf(cache, req[r].key) IN
              /\ hist' = Append(hist, r)
              /\ req'[r].now = now'
              /\ (i # 0 /\ ~IsStale(cache[i], now') /\ now' <= cache[i].value.reset) =>
                     /\ req'[r].entry.count = cache[i].value.count + 1
                     /\ req'[r].entry.reset = cache[i].value.reset
                     /\ (req'[r].status = 429) <=>
                            (cache[i].value.count + 1 > options.maxRequests)
              /\ (i # 0 /\ now <= cache[i].value.reset /\ now' > cache[i].value.reset) =>
                     /\ req'[r].entry.count = 1
                     /\ req'[r].entry.reset = now' + options.duration
                     /\ req'[r].status = Unset]_vars

\* of two requests of one key suspended together the one that arrived first
\* was resumed last and is the rejected one of maxRequests + 1; and a request
\* that was suspended while the clock passed its key's resetAt was counted as
\* the first of a fresh window
C19_Witness ==
    LET B == Book IN
    /\ \E i, j \in Pos :
           /\ j < i
           /\ hist[j] > hist[i]
           /\ j \in B[i].run
           /\ Cardinality(B[i].run) = options.maxRequests + 1
           /\ Admitted(hist[j])
           /\ Rejected(hist[i])
    /\ \E m \in Pos :
           /\ Prev(m) # 0
           /\ ~Evicted(m)
           /\ ~AgedOut(m)
           /\ \A p \in 1..(m - 1) : T(p) <= ResetAt(Prev(m))
           /\ T(m) > ResetAt(Prev(m))
           /\ Counted(m) = 1

\* C15: the queue holds exactly the file writes that were started by a
\* logged line and have not settled yet, whether the others were written or
\* failed; flush() is never rejected, and once it is resolved every write that
\* was in the queue when it was called has settled and left the queue.
C15_FlushWaitsForPendingWrites ==
    /\ fileWriteQueue = (1..Len(console)) \ DOMAIN settled
    /\ \A w \in DOMAIN settled : settled[w].promise = "fulfilled"
    /\ flush.state # "rejected"
    /\ flush.state = "resolved" =>
           /\ flush.awaited \subseteq DOMAIN settled
           /\ flush.awaited \cap fileWriteQueue = {}

\* flush() is resolved after it waited for two writes, one of which failed
\* and one of which was written, while a write started after the call of
\* flush() is still in the queue
C15_Witness ==
    /\ flush.state = "resolved"
    /\ \E w, x \in flush.awaited : ~settled[w].written /\ settled[x].written
    /\ fileWriteQueue # {}

\* C17: every plugin instance counts in its own cache: the step that
\* accounts a request in one instance leaves the cache of the other instance
\* as it was, and the count, the resetAt and the verdict of the request are
\* those its own instance's cache gives, whatever the other instance holds
\* for the same key.
C17_InstanceIsolation ==
    [][\A r \in Req :
          (req[r].pc = "awaiting" /\ req'[r].pc = "done" /\ req'[r].skip = "false") =>
              LET own == IF req[r].plugin = 1 THEN cache ELSE otherCache
                  i == IndexOf(own, req[r].key)
                  open == i # 0 /\ ~IsStale(own[i], now') /\ now' <= own[i].value.reset
              IN  /\ req[r].plugin = 1 => otherCache' = otherCache
                  /\ req[r].plugin = 2 => cache' = cache /\ hist' = hist
                  /\ req'[r].entry.count = (IF open THEN own[i].value.count + 1 ELSE 1)
                  /\ req'[r].entry.reset =
                         (IF open THEN own[i].value.reset ELSE now' + options.duration)
                  /\ (req'[r].status = 429) <=> (req'[r].entry.count > options.maxRequests)
                  /\ \A q \in Req \ {r} : req'[q] = req[q]]_vars

\* both instances hold a counter for one key, with different counts: a
\* request of the key was rejected by the second instance and a later one of
\* the same key was admitted by the first
C17_Witness ==
    \E r, q \in Req :
        /\ req[r].plugin = 2 /\ Accounted(r) /\ Rejected(r)
        /\ req[q].plugin = 1 /\ Accounted(q) /\ Admitted(q)
        /\ req[q].key = req[r].key
        /\ q > r
        /\ req[q].now = req[r].now
        /\ Has(cache, req[r].key) /\ Has(otherCache, req[r].key)
        /\ cache[IndexOf(cache, req[r].key)].value.count
               < otherCache[IndexOf(otherCache, req[r].key)].value.count

====
